---------------------------- MODULE Spec2Model ----------------------------
(*************************************************************************)
(* Data link layer simulation (src/datalink.py): CRC coding, framing,    *)
(* the noisy channel, the sliding-window sender, the buffering receiver  *)
(* and the step driver of DataLinkSimulatorGUI.                          *)
(*                                                                       *)
(* Bit strings are sequences over {0, 1}; a character is its code point; *)
(* a Python string is the sequence of its characters' code points.       *)
(* An optional integer (Python None or an int) is the empty sequence or  *)
(* a one-element sequence.                                               *)
(*************************************************************************)
EXTENDS Integers, Sequences, FiniteSets, TLC

(*************************************************************************)
(* Bounds of the model.                                                  *)
(*************************************************************************)
\* longest text the user types into the data entry
MaxData == 4
\* the step counter saturates here
MaxSteps == 5
\* calls fed to a stand-alone receiver
MaxCalls == 4
\* largest sequence number fed to a stand-alone receiver
MaxSeq == 4
\* longest data bit string and longest generator given to the CRC functions
MaxBits == 4
MaxPoly == 4
\* most data bits in a frame given to unframe_data
MaxFrameData == 9

(*************************************************************************)
(* Program constants.                                                    *)
(*************************************************************************)
\* DataLinkLayerNode.__init__: polynomial="1011"
DefaultPolynomial == <<1, 0, 1, 1>>
\* DataLinkLayerNode.__init__: self.window_size = 3
WindowSize == 3
\* frame_data: sequence_number % 4
SeqModulus == 4
\* frame_data: format(ord(char), '08b'); unframe_data: range(0, len, 8)
ByteWidth == 8

\* the characters of the model: ' ', 'A', 'B'
Space == 32
Alphabet == {Space, 65, 66}
\* data_entry.insert(0, "Hello")
Hello == <<72, 101, 108, 108, 111>>

None == <<>>
Some(x) == <<x>>

\* how a call ends: it returns a value or raises an exception
Returned(value) == [raised |-> "", value |-> <<value>>]
Raised(exception) == [raised |-> exception, value |-> <<>>]

(*************************************************************************)
(* Python string and integer formatting.                                 *)
(*************************************************************************)
RECURSIVE ToBits(_, _)
\* the width-bit big-endian binary form of k (k < 2^width)
ToBits(k, width) ==
    IF width = 0 THEN <<>>
    ELSE Append(ToBits(k \div 2, width - 1), k % 2)

RECURSIVE ParseInt(_, _)
\* int(digits, base) of a non-empty digit string
ParseInt(digits, base) ==
    IF digits = <<>> THEN 0
    ELSE base * ParseInt(SubSeq(digits, 1, Len(digits) - 1), base) + digits[Len(digits)]

RECURSIVE Strip(_)
\* str.strip(): leading and trailing whitespace removed
Strip(s) ==
    IF s = <<>> THEN s
    ELSE IF s[1] = Space THEN Strip(Tail(s))
    ELSE IF s[Len(s)] = Space THEN Strip(SubSeq(s, 1, Len(s) - 1))
    ELSE s

\* the slice s[k:], k counted from 0, a negative k counted from the end
PySliceFrom(s, k) ==
    LET start == IF k >= 0 THEN k ELSE IF Len(s) + k < 0 THEN 0 ELSE Len(s) + k
    IN  SubSeq(s, start + 1, Len(s))

Zeros(n) == [i \in 1..n |-> 0]
Xor(a, b) == IF a = b THEN 0 ELSE 1

(*************************************************************************)
(* CRC: generate_crc and check_crc.                                      *)
(*************************************************************************)
\* the inner loop: temp[i + j] ^= polynomial[j] for j in range(n); i is 1-based
XorAt(temp, i, polynomial) ==
    LET n == Len(polynomial) IN
    SubSeq(temp, 1, i - 1)
    \o [j \in 1..n |-> Xor(temp[i + j - 1], polynomial[j])]
    \o SubSeq(temp, i + n, Len(temp))

RECURSIVE Divide(_, _, _, _)
\* the outer loop over positions i..last: XOR the polynomial in wherever the bit is 1
Divide(temp, i, last, polynomial) ==
    IF i > last THEN temp
    ELSE Divide(IF temp[i] = 1 THEN XorAt(temp, i, polynomial) ELSE temp,
                i + 1, last, polynomial)

generate_crc(data_bits, polynomial_bits) ==
    LET n == Len(polynomial_bits)
        temp_data == data_bits \o Zeros(n - 1)
        done == Divide(temp_data, 1, Len(data_bits), polynomial_bits)
    IN  SubSeq(done, Len(data_bits) + 1, Len(done))

\* mutant: the remainder is taken one bit too late, so its first bit is not looked at
check_crc_short_remainder(received_bits, polynomial_bits) ==
    LET n == Len(polynomial_bits)
        done == Divide(received_bits, 1, Len(received_bits) - n + 1, polynomial_bits)
        remainder == PySliceFrom(done, Len(received_bits) - n + 2)
    IN  IF n = 0 THEN Raised("IndexError")
        ELSE IF remainder = <<>> THEN Raised("ValueError")
        ELSE Returned(ParseInt(remainder, 10) = 0)

\* check_crc: returns True or False; an empty polynomial makes the loop read
\* temp_received[len] (IndexError) and an empty remainder makes int() raise
check_crc(received_bits, polynomial_bits) ==
    LET n == Len(polynomial_bits)
        done == Divide(received_bits, 1, Len(received_bits) - n + 1, polynomial_bits)
        remainder == PySliceFrom(done, Len(received_bits) - n + 1)
    IN  IF n = 0 THEN Raised("IndexError")
        ELSE IF remainder = <<>> THEN Raised("ValueError")
        ELSE Returned(ParseInt(remainder, 10) = 0)

(*************************************************************************)
(* DataLinkLayerNode.                                                    *)
(*************************************************************************)
\* received_frames is a dict: a set of <<key, value>> pairs with unique keys
Keys(d) == {e[1] : e \in d}
Get(d, k) == (CHOOSE e \in d : e[1] = k)[2]
Pop(d, k) == {e \in d : e[1] # k}
Put(d, k, v) == Pop(d, k) \cup {<<k, v>>}

\* DataLinkLayerNode.__init__
NewNode(name) ==
    [name |-> name,
     polynomial |-> DefaultPolynomial,
     send_buffer |-> <<>>,
     next_frame_to_send |-> 0,
     expected_frame_ack |-> 0,
     window_size |-> WindowSize,
     received_frames |-> {},
     next_frame_to_deliver |-> 0]

\* self.sender = None / self.receiver = None
NoNode == [name |-> "None"]

RECURSIVE DataBits(_)
\* ''.join(format(ord(char), '08b') for char in data)
DataBits(data) ==
    IF data = <<>> THEN <<>>
    ELSE ToBits(data[1], ByteWidth) \o DataBits(Tail(data))

\* mutant: the CRC covers the data bits only, not the sequence number
frame_data_crc_of_data(node, data, sequence_number) ==
    LET seq_num_binary == ToBits(sequence_number % SeqModulus, 2)
        frame_payload == seq_num_binary \o DataBits(data)
        crc == generate_crc(DataBits(data), node.polynomial)
    IN  frame_payload \o crc

\* mutant: the sequence number is written modulo 2, below the window size
frame_data_modulus_two(node, data, sequence_number) ==
    LET seq_num_binary == ToBits(sequence_number % 2, 2)
        frame_payload == seq_num_binary \o DataBits(data)
        crc == generate_crc(frame_payload, node.polynomial)
    IN  frame_payload \o crc

\* frame_data: [sequence number, 2 bits] + [data] + [CRC]
frame_data(node, data, sequence_number) ==
    LET seq_num_binary == ToBits(sequence_number % SeqModulus, 2)
        frame_payload == seq_num_binary \o DataBits(data)
        crc == generate_crc(frame_payload, node.polynomial)
    IN  frame_payload \o crc

RECURSIVE DecodeBytes_truncating(_)
\* mutant: a trailing slice shorter than 8 bits is dropped
DecodeBytes_truncating(data_bits) ==
    IF Len(data_bits) < ByteWidth THEN <<>>
    ELSE <<ParseInt(SubSeq(data_bits, 1, ByteWidth), 2)>>
         \o DecodeBytes_truncating(SubSeq(data_bits, ByteWidth + 1, Len(data_bits)))

RECURSIVE DecodeBytes(_)
\* the loop of unframe_data: one character per slice data_bits[i:i+8]
DecodeBytes(data_bits) ==
    IF data_bits = <<>> THEN <<>>
    ELSE IF Len(data_bits) <= ByteWidth THEN <<ParseInt(data_bits, 2)>>
    ELSE <<ParseInt(SubSeq(data_bits, 1, ByteWidth), 2)>>
         \o DecodeBytes(SubSeq(data_bits, ByteWidth + 1, Len(data_bits)))

\* mutant: the CRC check is skipped
unframe_data_unchecked(node, frame) ==
    LET n == Len(node.polynomial)
    IN  IF Len(frame) < n - 1 + 2
        THEN [sequence_number |-> None, data |-> None, is_corrupted |-> TRUE, raised |-> ""]
        ELSE [sequence_number |-> Some(ParseInt(SubSeq(frame, 1, 2), 2)),
              data |-> Some(DecodeBytes(SubSeq(frame, 3, Len(frame) - n + 1))),
              is_corrupted |-> FALSE, raised |-> ""]

\* unframe_data: (sequence_number, data, is_corrupted); an exception of check_crc
\* passes through (raised)
unframe_data(node, frame) ==
    LET n == Len(node.polynomial)
        crc_ok == check_crc(frame, node.polynomial)
        corrupted == [sequence_number |-> None, data |-> None, is_corrupted |-> TRUE,
                      raised |-> ""]
    IN  IF Len(frame) < n - 1 + 2 THEN corrupted
        ELSE IF crc_ok.raised # "" THEN [corrupted EXCEPT !.raised = crc_ok.raised]
        ELSE IF ~crc_ok.value[1] THEN corrupted
        ELSE [sequence_number |-> Some(ParseInt(SubSeq(frame, 1, 2), 2)),
              data |-> Some(DecodeBytes(SubSeq(frame, 3, Len(frame) - n + 1))),
              is_corrupted |-> FALSE, raised |-> ""]

RECURSIVE Drain_keep(_, _, _)
\* mutant: a drained entry is read but not removed from received_frames
Drain_keep(next_frame_to_deliver, received_frames, delivered) ==
    IF next_frame_to_deliver \in Keys(received_frames)
    THEN LET d == Drain_keep(next_frame_to_deliver + 1,
                             Pop(received_frames, next_frame_to_deliver),
                             Append(delivered, Get(received_frames, next_frame_to_deliver)))
         IN  [d EXCEPT !.received_frames = received_frames]
    ELSE [next_frame_to_deliver |-> next_frame_to_deliver,
          received_frames |-> received_frames,
          delivered |-> delivered]

\* mutant: an if for the while: at most one buffered entry is drained
Drain_once(next_frame_to_deliver, received_frames, delivered) ==
    IF next_frame_to_deliver \in Keys(received_frames)
    THEN [next_frame_to_deliver |-> next_frame_to_deliver + 1,
          received_frames |-> Pop(received_frames, next_frame_to_deliver),
          delivered |-> Append(delivered, Get(received_frames, next_frame_to_deliver))]
    ELSE [next_frame_to_deliver |-> next_frame_to_deliver,
          received_frames |-> received_frames,
          delivered |-> delivered]

RECURSIVE Drain(_, _, _)
\* while self.next_frame_to_deliver in self.received_frames: pop, deliver, += 1
Drain(next_frame_to_deliver, received_frames, delivered) ==
    IF next_frame_to_deliver \in Keys(received_frames)
    THEN Drain(next_frame_to_deliver + 1,
               Pop(received_frames, next_frame_to_deliver),
               Append(delivered, Get(received_frames, next_frame_to_deliver)))
    ELSE [next_frame_to_deliver |-> next_frame_to_deliver,
          received_frames |-> received_frames,
          delivered |-> delivered]

\* mutant: a duplicate is answered with the cumulative ACK, not its own number
process_received_frame_cumulative(node, sequence_number, data) ==
    IF sequence_number = None
    THEN [node |-> node, ack |-> None, delivered |-> <<>>]
    ELSE LET seq == sequence_number[1] IN
         IF seq = node.next_frame_to_deliver
         THEN LET d == Drain(node.next_frame_to_deliver + 1, node.received_frames, <<data>>)
              IN  [node |-> [node EXCEPT !.next_frame_to_deliver = d.next_frame_to_deliver,
                                         !.received_frames = d.received_frames],
                   ack |-> Some(seq),
                   delivered |-> d.delivered]
         ELSE IF seq > node.next_frame_to_deliver
         THEN [node |-> [node EXCEPT !.received_frames = Put(@, seq, data)],
               ack |-> IF node.next_frame_to_deliver > 0
                       THEN Some(node.next_frame_to_deliver - 1) ELSE None,
               delivered |-> <<>>]
         ELSE [node |-> node, ack |-> Some(node.next_frame_to_deliver - 1),
               delivered |-> <<>>]

\* mutant: a frame ahead of the delivery point is delivered as if in order (>= for ==)
process_received_frame_ahead(node, sequence_number, data) ==
    IF sequence_number = None
    THEN [node |-> node, ack |-> None, delivered |-> <<>>]
    ELSE LET seq == sequence_number[1] IN
         IF seq >= node.next_frame_to_deliver
         THEN LET d == Drain(node.next_frame_to_deliver + 1, node.received_frames, <<data>>)
              IN  [node |-> [node EXCEPT !.next_frame_to_deliver = d.next_frame_to_deliver,
                                         !.received_frames = d.received_frames],
                   ack |-> Some(seq),
                   delivered |-> d.delivered]
         ELSE [node |-> node, ack |-> Some(seq), delivered |-> <<>>]

\* mutant: the in-order case acknowledges the last number delivered, not the one received
process_received_frame_final_ack(node, sequence_number, data) ==
    IF sequence_number = None
    THEN [node |-> node, ack |-> None, delivered |-> <<>>]
    ELSE LET seq == sequence_number[1] IN
         IF seq = node.next_frame_to_deliver
         THEN LET d == Drain(node.next_frame_to_deliver + 1, node.received_frames, <<data>>)
              IN  [node |-> [node EXCEPT !.next_frame_to_deliver = d.next_frame_to_deliver,
                                         !.received_frames = d.received_frames],
                   ack |-> Some(d.next_frame_to_deliver - 1),
                   delivered |-> d.delivered]
         ELSE IF seq > node.next_frame_to_deliver
         THEN [node |-> [node EXCEPT !.received_frames = Put(@, seq, data)],
               ack |-> IF node.next_frame_to_deliver > 0
                       THEN Some(node.next_frame_to_deliver - 1) ELSE None,
               delivered |-> <<>>]
         ELSE [node |-> node, ack |-> Some(seq), delivered |-> <<>>]

\* mutant: a buffered frame is acknowledged with its own number
process_received_frame_ack_buffered(node, sequence_number, data) ==
    IF sequence_number = None
    THEN [node |-> node, ack |-> None, delivered |-> <<>>]
    ELSE LET seq == sequence_number[1] IN
         IF seq = node.next_frame_to_deliver
         THEN LET d == Drain(node.next_frame_to_deliver + 1, node.received_frames, <<data>>)
              IN  [node |-> [node EXCEPT !.next_frame_to_deliver = d.next_frame_to_deliver,
                                         !.received_frames = d.received_frames],
                   ack |-> Some(seq),
                   delivered |-> d.delivered]
         ELSE IF seq > node.next_frame_to_deliver
         THEN [node |-> [node EXCEPT !.received_frames = Put(@, seq, data)],
               ack |-> Some(seq),
               delivered |-> <<>>]
         ELSE [node |-> node, ack |-> Some(seq), delivered |-> <<>>]

\* mutant: a frame at or below the delivery point is delivered as if in order (<= for ==)
process_received_frame_behind(node, sequence_number, data) ==
    IF sequence_number = None
    THEN [node |-> node, ack |-> None, delivered |-> <<>>]
    ELSE LET seq == sequence_number[1] IN
         IF seq <= node.next_frame_to_deliver
         THEN LET d == Drain(node.next_frame_to_deliver + 1, node.received_frames, <<data>>)
              IN  [node |-> [node EXCEPT !.next_frame_to_deliver = d.next_frame_to_deliver,
                                         !.received_frames = d.received_frames],
                   ack |-> Some(seq),
                   delivered |-> d.delivered]
         ELSE [node |-> [node EXCEPT !.received_frames = Put(@, seq, data)],
               ack |-> IF node.next_frame_to_deliver > 0
                       THEN Some(node.next_frame_to_deliver - 1) ELSE None,
               delivered |-> <<>>]

\* process_received_frame: the node afterwards, the ACK returned, and the data
\* handed to the network layer ("Delivering ..." log lines), in order
process_received_frame(node, sequence_number, data) ==
    IF sequence_number = None
    THEN [node |-> node, ack |-> None, delivered |-> <<>>]
    ELSE LET seq == sequence_number[1] IN
         IF seq = node.next_frame_to_deliver
         THEN LET d == Drain(node.next_frame_to_deliver + 1, node.received_frames, <<data>>)
              IN  [node |-> [node EXCEPT !.next_frame_to_deliver = d.next_frame_to_deliver,
                                         !.received_frames = d.received_frames],
                   ack |-> Some(seq),
                   delivered |-> d.delivered]
         ELSE IF seq > node.next_frame_to_deliver
         THEN [node |-> [node EXCEPT !.received_frames = Put(@, seq, data)],
               ack |-> IF node.next_frame_to_deliver > 0
                       THEN Some(node.next_frame_to_deliver - 1) ELSE None,
               delivered |-> <<>>]
         ELSE [node |-> node, ack |-> Some(seq), delivered |-> <<>>]

(*************************************************************************)
(* DataLinkSimulatorGUI: the state.                                      *)
(*************************************************************************)
VARIABLES
    is_running,                \* self.is_running
    sender,                    \* self.sender: NoNode or a node
    receiver,                  \* self.receiver: NoNode or a node
    simulation_data,           \* self.simulation_data
    data_entry,                \* the text of self.data_entry
    loss_probability_entry,    \* the text of self.loss_probability_entry
    introduce_error_var,       \* self.introduce_error_var
    entry_state,               \* state of the three input widgets
    request,                   \* history: the handler that ran last and the driver state it ran in
    outcomes,                  \* history: the channel's outcome for each frame sent
    ack_num_from_receiver,     \* the ACK of the last step (None if none)
    delivered,                 \* history: data handed to the network layer, in order
    steps,                     \* history: steps taken while running (saturating)
    calls,                     \* history: the calls fed to a stand-alone receiver
    probe                      \* the last call of a coding or framing function, with its result

program == <<is_running, sender, receiver, simulation_data,
             data_entry, loss_probability_entry, introduce_error_var, entry_state>>
history == <<request, outcomes, ack_num_from_receiver, delivered, steps, calls, probe>>
run == <<outcomes, ack_num_from_receiver, delivered, steps>>
vars == <<program, history>>

\* texts typed into the loss probability entry
LossTexts == {"abc", "-0.1", "0.0", "0.1", "1.0", "1.1"}
\* float(text) succeeds
IsFloat(text) == text # "abc"
\* float(text), in tenths
Float(text) ==
    CASE text = "-0.1" -> -1
      [] text = "0.0" -> 0
      [] text = "0.1" -> 1
      [] text = "1.0" -> 10
      [] text = "1.1" -> 11
\* mutant: the upper end of the interval is not checked
InUnitInterval_no_upper(loss_prob) == 0 <= loss_prob

\* 0.0 <= loss_prob <= 1.0 (tenths)
InUnitInterval(loss_prob) == 0 <= loss_prob /\ loss_prob <= 10

\* the driver's state as the interface names it
Idle == ~is_running /\ sender = NoNode
Running == is_running
Finished == ~is_running /\ sender # NoNode
DriverState == IF is_running THEN "Running" ELSE IF sender = NoNode THEN "Idle" ELSE "Finished"
Called(handler) == [handler |-> handler, from |-> DriverState]

(*************************************************************************)
(* simulate_channel_gui: every outcome the random draws can produce.     *)
(*************************************************************************)
\* corrupted_frame[error_index] flipped; error_index is 1-based here
FlipBit(frame, error_index) ==
    [k \in 1..Len(frame) |-> IF k = error_index THEN 1 - frame[k] ELSE frame[k]]

\* random.random() lies in [0, 1): it is below loss_prob only if loss_prob > 0,
\* and at or above it only if loss_prob < 1
simulate_channel_gui(frame, introduce_error_flag, loss_prob) ==
    (IF loss_prob > 0 THEN {[event |-> "lost", frame |-> None]} ELSE {})
    \cup
    (IF loss_prob < 10
     THEN {[event |-> "delivered", frame |-> Some(frame)]}
          \cup
          (IF introduce_error_flag
           THEN {[event |-> "corrupted", frame |-> Some(FlipBit(frame, i))] :
                    i \in 1..Len(frame)}
           ELSE {})
     ELSE {})

(*************************************************************************)
(* DataLinkSimulatorGUI: the handlers.                                   *)
(*************************************************************************)
Init ==
    /\ is_running = FALSE
    /\ sender = NoNode
    /\ receiver = NoNode
    /\ simulation_data = <<>>
    /\ data_entry = Hello
    /\ loss_probability_entry = "0.1"
    /\ introduce_error_var = FALSE
    /\ entry_state = "normal"
    /\ request = [handler |-> "init", from |-> "Idle"]
    /\ outcomes = <<>>
    /\ ack_num_from_receiver = None
    /\ delivered = <<>>
    /\ steps = 0
    /\ calls = <<>>
    /\ probe = [op |-> "none"]

\* the user deletes the text of the data entry (possible only while it is enabled)
ClearData ==
    /\ entry_state = "normal"
    /\ data_entry' = <<>>
    /\ request' = Called("type")
    /\ UNCHANGED <<calls, probe>>
    /\ UNCHANGED <<is_running, sender, receiver, simulation_data,
                   loss_probability_entry, introduce_error_var, entry_state, run>>

\* the user types one more character into the data entry
TypeData ==
    /\ entry_state = "normal"
    /\ Len(data_entry) < MaxData
    /\ \E char \in Alphabet : data_entry' = Append(data_entry, char)
    /\ request' = Called("type")
    /\ UNCHANGED <<calls, probe>>
    /\ UNCHANGED <<is_running, sender, receiver, simulation_data,
                   loss_probability_entry, introduce_error_var, entry_state, run>>

\* the user types into the loss probability entry
TypeLoss ==
    /\ entry_state = "normal"
    /\ \E text \in LossTexts : loss_probability_entry' = text
    /\ request' = Called("type")
    /\ UNCHANGED <<calls, probe>>
    /\ UNCHANGED <<is_running, sender, receiver, simulation_data,
                   data_entry, introduce_error_var, entry_state, run>>

\* the user ticks or unticks "Introduce Bit Error"
ToggleError ==
    /\ entry_state = "normal"
    /\ introduce_error_var' = ~introduce_error_var
    /\ request' = Called("type")
    /\ UNCHANGED <<calls, probe>>
    /\ UNCHANGED <<is_running, sender, receiver, simulation_data,
                   data_entry, loss_probability_entry, entry_state, run>>

\* start_simulation's input checks: the stripped text is not empty and the loss
\* probability parses as a float in [0.0, 1.0]
StartAccepted(data_input, loss_text) ==
    /\ data_input # <<>>
    /\ IsFloat(loss_text)
    /\ InUnitInterval(Float(loss_text))

\* mutant: a start is ignored in every state but Idle
StartIgnored_unless_idle == is_running \/ sender # NoNode

\* start_simulation: if self.is_running: return
StartIgnored == is_running

\* start_simulation
StartSimulation ==
    /\ request' = Called("start")
    /\ UNCHANGED <<calls, probe>>
    /\ LET data_input == Strip(data_entry) IN
       IF StartIgnored \/ ~StartAccepted(data_input, loss_probability_entry)
       THEN UNCHANGED <<program, run>>
       ELSE /\ sender' = [NewNode("Sender") EXCEPT !.send_buffer = data_input]
            /\ receiver' = NewNode("Receiver")
            /\ simulation_data' = data_input
            /\ is_running' = TRUE
            /\ entry_state' = "disabled"
            /\ outcomes' = <<>>
            /\ ack_num_from_receiver' = None
            /\ delivered' = <<>>
            /\ steps' = 0
            /\ UNCHANGED <<data_entry, loss_probability_entry, introduce_error_var>>

\* mutant: the window test admits one frame too many (<= for <)
can_send_new_frame_inclusive(node) ==
    /\ node.next_frame_to_send < Len(node.send_buffer)
    /\ node.next_frame_to_send <= node.expected_frame_ack + node.window_size

\* can_send_new_frame of next_simulation_step
can_send_new_frame(node) ==
    /\ node.next_frame_to_send < Len(node.send_buffer)
    /\ node.next_frame_to_send < node.expected_frame_ack + node.window_size

\* mutant: every ACK moves the window base, also one below it
OnAck_unguarded(node, ack) ==
    IF ack # None
    THEN [node EXCEPT !.expected_frame_ack = ack[1] + 1]
    ELSE node

\* the sender's handling of an ACK in next_simulation_step
OnAck(node, ack) ==
    IF ack # None /\ ack[1] >= node.expected_frame_ack
    THEN [node EXCEPT !.expected_frame_ack = ack[1] + 1]
    ELSE node

\* mutant: the completion check compares against the last index, not the length
Completed_last_index(snd, rcv, data) ==
    /\ snd.expected_frame_ack = Len(snd.send_buffer) - 1
    /\ rcv.next_frame_to_deliver = Len(data)

\* the completion check at the end of next_simulation_step
Completed(snd, rcv, data) ==
    /\ snd.expected_frame_ack = Len(snd.send_buffer)
    /\ rcv.next_frame_to_deliver = Len(data)

\* what the receiver makes of what the channel hands over
Receive(rcv, out) ==
    IF out.frame = None
    THEN [node |-> rcv, ack |-> None, delivered |-> <<>>]
    ELSE LET u == unframe_data(rcv, out.frame[1]) IN
         IF u.is_corrupted
         THEN [node |-> rcv, ack |-> None, delivered |-> <<>>]
         ELSE process_received_frame(rcv, u.sequence_number, u.data[1])

\* the steps counter saturates at MaxSteps
Count(n) == IF n < MaxSteps THEN n + 1 ELSE n

\* next_simulation_step: if not self.is_running: return
StepIgnored == ~is_running

\* next_simulation_step
NextSimulationStep ==
    /\ request' = Called("step")
    /\ UNCHANGED <<calls, probe>>
    /\ IF StepIgnored
       THEN UNCHANGED <<program, run>>
       ELSE /\ steps' = Count(steps)
            /\ UNCHANGED <<simulation_data, data_entry, loss_probability_entry,
                           introduce_error_var, entry_state>>
            /\ IF can_send_new_frame(sender)
               THEN LET data_char == <<sender.send_buffer[sender.next_frame_to_send + 1]>>
                    IN  \E frame_to_send \in
                              {frame_data(sender, data_char, sender.next_frame_to_send)} :
                        \E out \in simulate_channel_gui(frame_to_send, introduce_error_var,
                                                        Float(loss_probability_entry)) :
                        \E r \in {Receive(receiver, out)} :
                           LET acked == OnAck(sender, r.ack)
                               snd == [acked EXCEPT !.next_frame_to_send = @ + 1]
                           IN  /\ sender' = snd
                               /\ receiver' = r.node
                               /\ outcomes' = Append(outcomes, out.event)
                               /\ ack_num_from_receiver' = r.ack
                               /\ delivered' = delivered \o r.delivered
                               /\ is_running' = ~Completed(snd, r.node, simulation_data)
               ELSE /\ is_running' = (sender.expected_frame_ack < Len(sender.send_buffer))
                    /\ ack_num_from_receiver' = None
                    /\ UNCHANGED <<sender, receiver, outcomes, delivered>>

\* reset_simulation
ResetSimulation ==
    /\ request' = Called("reset")
    /\ UNCHANGED <<calls, probe>>
    /\ is_running' = FALSE
    /\ sender' = NoNode
    /\ receiver' = NoNode
    /\ simulation_data' = <<>>
    /\ data_entry' = Hello
    /\ loss_probability_entry' = "0.1"
    /\ entry_state' = "normal"
    /\ outcomes' = <<>>
    /\ ack_num_from_receiver' = None
    /\ delivered' = <<>>
    /\ steps' = 0
    /\ UNCHANGED introduce_error_var

Next ==
    \/ ClearData
    \/ TypeData
    \/ TypeLoss
    \/ ToggleError
    \/ StartSimulation
    \/ NextSimulationStep
    \/ ResetSimulation

Spec == Init /\ [][Next]_vars

(*************************************************************************)
(* A stand-alone receiver node fed arbitrary process_received_frame      *)
(* calls: sequence numbers 0..MaxSeq or None, one character of data.     *)
(*************************************************************************)
InitReceiver ==
    /\ is_running = FALSE
    /\ sender = NoNode
    /\ receiver = NewNode("Receiver")
    /\ simulation_data = <<>>
    /\ data_entry = Hello
    /\ loss_probability_entry = "0.1"
    /\ introduce_error_var = FALSE
    /\ entry_state = "normal"
    /\ request = [handler |-> "init", from |-> "Idle"]
    /\ outcomes = <<>>
    /\ ack_num_from_receiver = None
    /\ delivered = <<>>
    /\ steps = 0
    /\ calls = <<>>
    /\ probe = [op |-> "none"]

\* the arguments of one call
ReceiveInputs ==
    {[sequence_number |-> Some(k), data |-> <<c>>] : k \in 0..MaxSeq, c \in Alphabet \ {Space}}
    \cup {[sequence_number |-> None, data |-> None]}

\* one call of receiver.process_received_frame
OnReceive ==
    /\ Len(calls) < MaxCalls
    /\ \E arg \in ReceiveInputs :
       \E r \in {process_received_frame(receiver, arg.sequence_number, arg.data)} :
          /\ receiver' = r.node
          /\ ack_num_from_receiver' = r.ack
          /\ delivered' = delivered \o r.delivered
          /\ calls' = Append(calls, [sequence_number |-> arg.sequence_number,
                                     data |-> arg.data,
                                     ack |-> r.ack,
                                     next_frame_to_deliver |-> r.node.next_frame_to_deliver])
    /\ request' = Called("receive")
    /\ UNCHANGED <<is_running, sender, simulation_data, data_entry,
                   loss_probability_entry, introduce_error_var, entry_state,
                   outcomes, steps, probe>>

NextReceiver == OnReceive

SpecReceiver == InitReceiver /\ [][NextReceiver]_vars

(*************************************************************************)
(* The coding and framing functions called on their own: generate_crc,   *)
(* check_crc, frame_data, unframe_data and the channel's bit flip. Each   *)
(* behaviour is one call on one input (and, after frame_data, one flip). *)
(*************************************************************************)
BitStrings(lo, hi) == UNION {[1..k -> {0, 1}] : k \in lo..hi}
\* the characters format(ord(char), '08b') writes in 8 bits
Chars == 0..(2 ^ ByteWidth - 1)

\* frame_data on one character, and unframe_data on the frame
CallFrame ==
    /\ probe.op = "none"
    /\ \E seq \in 0..(2 * SeqModulus - 1), char \in Chars :
       \E frame \in {frame_data(NewNode("Sender"), <<char>>, seq)} :
          probe' = [op |-> "frame",
                    sequence_number |-> seq,
                    data |-> <<char>>,
                    frame |-> frame,
                    unframed |-> unframe_data(NewNode("Receiver"), frame)]
    /\ UNCHANGED <<program, request, run, calls>>

\* the channel flips one bit of the frame just built; the receiver gets the result
CallFlip ==
    /\ probe.op = "frame"
    /\ \E out \in simulate_channel_gui(probe.frame, TRUE, 0) :
          /\ out.event = "corrupted"
          /\ probe' = [op |-> "flip",
                       sequence_number |-> probe.sequence_number,
                       data |-> probe.data,
                       sent |-> probe.frame,
                       frame |-> out.frame[1],
                       crc_ok |-> check_crc(out.frame[1], DefaultPolynomial),
                       unframed |-> unframe_data(NewNode("Receiver"), out.frame[1]),
                       received |-> Receive(NewNode("Receiver"), out)]
    /\ UNCHANGED <<program, request, run, calls>>

\* generate_crc on any data and any non-empty generator, and check_crc on the
\* data followed by the check bits
CallCrc ==
    /\ probe.op = "none"
    /\ \E data \in BitStrings(0, MaxBits), polynomial \in BitStrings(1, MaxPoly) :
       \E crc \in {generate_crc(data, polynomial)} :
          probe' = [op |-> "crc",
                    data |-> data,
                    polynomial |-> polynomial,
                    crc |-> Returned(crc),
                    check |-> check_crc(data \o crc, polynomial)]
    /\ UNCHANGED <<program, request, run, calls>>

\* check_crc on any bit string and any non-empty generator
CallCheck ==
    /\ probe.op = "none"
    /\ \E bits \in BitStrings(0, MaxBits), polynomial \in BitStrings(1, MaxPoly) :
          probe' = [op |-> "check",
                    bits |-> bits,
                    polynomial |-> polynomial,
                    result |-> check_crc(bits, polynomial)]
    /\ UNCHANGED <<program, request, run, calls>>

\* unframe_data on a frame with a valid CRC and any number of data bits
CallUnframe ==
    /\ probe.op = "none"
    /\ \E payload \in BitStrings(2, 2 + MaxFrameData) :
       \E frame \in {payload \o generate_crc(payload, DefaultPolynomial)} :
          probe' = [op |-> "unframe",
                    data_bits |-> SubSeq(payload, 3, Len(payload)),
                    frame |-> frame,
                    unframed |-> unframe_data(NewNode("Receiver"), frame)]
    /\ UNCHANGED <<program, request, run, calls>>

NextCoding ==
    \/ CallFrame
    \/ CallFlip
    \/ CallCrc
    \/ CallCheck
    \/ CallUnframe

SpecCoding == Init /\ [][NextCoding]_vars

(*************************************************************************)
(* Properties.                                                           *)
(*************************************************************************)
Min(a, b) == IF a < b THEN a ELSE b
Last(seq) == seq[Len(seq)]
\* a step that ran while the driver was Running has just been taken
StepTaken == request' = [handler |-> "step", from |-> "Running"]
AllLost == \A i \in 1..Len(outcomes) : outcomes[i] = "lost"

\* C1: flow control. In every state of a run the sender has
\* next_frame_to_send - expected_frame_ack <= window_size, and a step taken
\* when the difference equals window_size sends no frame.
C1_FlowControl ==
    /\ [](sender # NoNode =>
            sender.next_frame_to_send - sender.expected_frame_ack <= sender.window_size)
    /\ [][(StepTaken /\ sender.next_frame_to_send - sender.expected_frame_ack
                            = sender.window_size)
            => /\ sender'.next_frame_to_send = sender.next_frame_to_send
               /\ outcomes' = outcomes]_vars

\* a step was taken with the window full: three frames out, none acknowledged
C1_Witness ==
    /\ is_running
    /\ request = [handler |-> "step", from |-> "Running"]
    /\ sender.next_frame_to_send - sender.expected_frame_ack = sender.window_size
    /\ sender.next_frame_to_send < Len(sender.send_buffer)
    /\ steps > Len(outcomes)

\* C2: in-order, duplicate-free delivery. The data handed to the network
\* layer is exactly send_buffer[0 .. next_frame_to_deliver - 1], in order,
\* each unit once, for every payload length and channel behaviour.
C2_InOrderDelivery ==
    sender # NoNode =>
        /\ receiver.next_frame_to_deliver <= Len(sender.send_buffer)
        /\ delivered = [i \in 1..receiver.next_frame_to_deliver |->
                            <<sender.send_buffer[i]>>]

\* a payload longer than the sequence modulus whose fifth frame (encoded
\* sequence number 0 again) reached the receiver after four deliveries
C2_Witness ==
    /\ sender # NoNode
    /\ Len(sender.send_buffer) > SeqModulus
    /\ Len(outcomes) > SeqModulus
    /\ Last(outcomes) = "delivered"
    /\ Len(delivered) = SeqModulus

\* C3: scenario A. With loss probability 0.0 and corruption disabled, a
\* payload of n <= 4 units is in n steps: after k steps both pointers are k,
\* and the driver is Finished exactly when k = n.
C3_LosslessRun ==
    (/\ sender # NoNode
     /\ loss_probability_entry = "0.0"
     /\ ~introduce_error_var
     /\ Len(sender.send_buffer) <= SeqModulus)
    => /\ steps <= Len(sender.send_buffer)
       /\ sender.expected_frame_ack = steps
       /\ receiver.next_frame_to_deliver = steps
       /\ Finished <=> steps = Len(sender.send_buffer)

\* a lossless run of four units has finished
C3_Witness ==
    /\ Finished
    /\ loss_probability_entry = "0.0"
    /\ ~introduce_error_var
    /\ Len(sender.send_buffer) = SeqModulus
    /\ steps = SeqModulus

\* C4: scenario B. While every data frame so far was lost,
\* next_frame_to_send is min(steps, n, window_size), expected_frame_ack and
\* next_frame_to_deliver are 0, and the driver is Running.
C4_AllLost ==
    (sender # NoNode /\ AllLost)
    => /\ sender.next_frame_to_send
            = Min(steps, Min(Len(sender.send_buffer), sender.window_size))
       /\ sender.expected_frame_ack = 0
       /\ receiver.next_frame_to_deliver = 0
       /\ Running

\* a whole window was lost and further steps were taken
C4_Witness ==
    /\ sender # NoNode
    /\ AllLost
    /\ Len(outcomes) = WindowSize
    /\ Len(sender.send_buffer) > WindowSize
    /\ steps = MaxSteps

\* a call of process_received_frame with a sequence number has just been made
ReceiveCalled == Len(calls') > Len(calls) /\ Last(calls').sequence_number # None

\* C5: a duplicate. A call with a sequence number below
\* next_frame_to_deliver returns that number as the ACK and changes neither
\* the node nor what was delivered; sequence 0 fed twice to a fresh receiver
\* is acknowledged 0 both times with next_frame_to_deliver = 1 after each.
C5_Duplicate ==
    /\ [][(ReceiveCalled
           /\ Last(calls').sequence_number[1] < receiver.next_frame_to_deliver)
          => /\ Last(calls').ack = Last(calls').sequence_number
             /\ receiver' = receiver
             /\ delivered' = delivered]_vars
    /\ []((/\ Len(calls) >= 2
           /\ calls[1].sequence_number = Some(0)
           /\ calls[2].sequence_number = Some(0))
          => /\ calls[1].ack = Some(0) /\ calls[1].next_frame_to_deliver = 1
             /\ calls[2].ack = Some(0) /\ calls[2].next_frame_to_deliver = 1)

\* a duplicate arrived after two deliveries
C5_Witness ==
    /\ Len(calls) = 3
    /\ calls[1].sequence_number = Some(0)
    /\ calls[2].sequence_number = Some(1)
    /\ calls[3].sequence_number = Some(0)

\* C6: the window base. A step in which the sender gets ACK k leaves
\* expected_frame_ack at k + 1 if k was at or above it and unchanged
\* otherwise; no step decreases expected_frame_ack.
C6_WindowBase ==
    [][StepTaken =>
          /\ sender'.expected_frame_ack >= sender.expected_frame_ack
          /\ sender'.expected_frame_ack =
                IF /\ ack_num_from_receiver' # None
                   /\ ack_num_from_receiver'[1] >= sender.expected_frame_ack
                THEN ack_num_from_receiver'[1] + 1
                ELSE sender.expected_frame_ack]_vars

\* an ACK below the window base arrived and was ignored
C6_Witness ==
    /\ sender # NoNode
    /\ request = [handler |-> "step", from |-> "Running"]
    /\ ack_num_from_receiver # None
    /\ ack_num_from_receiver[1] + 1 < sender.expected_frame_ack

\* the first sequence number above ntd that is no key of the dict
FirstMissing(ntd, dict) ==
    CHOOSE k \in (ntd + 1)..(ntd + 1 + Cardinality(dict)) :
        /\ k \notin Keys(dict)
        /\ \A j \in (ntd + 1)..(k - 1) : j \in Keys(dict)

\* C7: buffering and draining. A frame above next_frame_to_deliver is stored
\* and nothing is delivered; the call with the expected number delivers it and
\* then the buffered entries with the consecutive numbers, ascending, removing
\* each, up to the first missing number; no other call delivers.
C7_BufferAndDrain ==
    [][ReceiveCalled =>
          LET seq == Last(calls').sequence_number[1]
              data == Last(calls').data
              ntd == receiver.next_frame_to_deliver
              dict == receiver.received_frames
          IN  IF seq > ntd
              THEN /\ receiver'.received_frames = {e \in dict : e[1] # seq} \cup {<<seq, data>>}
                   /\ receiver'.next_frame_to_deliver = ntd
                   /\ delivered' = delivered
              ELSE IF seq = ntd
              THEN LET m == FirstMissing(ntd, dict)
                   IN  /\ receiver'.next_frame_to_deliver = m
                       /\ delivered' = delivered \o <<data>>
                                       \o [i \in 1..(m - ntd - 1) |-> Get(dict, ntd + i)]
                       /\ receiver'.received_frames =
                              {e \in dict : e[1] \notin (ntd + 1)..(m - 1)}
              ELSE delivered' = delivered]_vars

\* frames 2 and 1 were buffered, 4 too; frame 0 then released 0, 1, 2 and left 4
C7_Witness ==
    /\ Len(calls) = 4
    /\ calls[1].sequence_number = Some(2)
    /\ calls[2].sequence_number = Some(4)
    /\ calls[3].sequence_number = Some(1)
    /\ calls[4].sequence_number = Some(0)
    /\ Len(delivered) = 3
    /\ Keys(receiver.received_frames) = {4}

\* C8: a lost or corrupted frame. The step leaves the receiver as it was,
\* produces no ACK, leaves expected_frame_ack and adds 1 to next_frame_to_send.
C8_LostOrCorrupted ==
    [][(StepTaken /\ Len(outcomes') > Len(outcomes)
                  /\ Last(outcomes') \in {"lost", "corrupted"})
          => /\ receiver' = receiver
             /\ delivered' = delivered
             /\ ack_num_from_receiver' = None
             /\ sender'.expected_frame_ack = sender.expected_frame_ack
             /\ sender'.next_frame_to_send = sender.next_frame_to_send + 1]_vars

\* a frame arrived with a flipped bit after an earlier frame was delivered
C8_Witness ==
    /\ request = [handler |-> "step", from |-> "Running"]
    /\ Len(outcomes) >= 2
    /\ outcomes[1] = "delivered"
    /\ Last(outcomes) = "corrupted"

\* C9: start. From Idle, a start whose payload (the entry's text, stripped)
\* is empty or whose loss probability is no number in [0.0, 1.0] leaves the
\* driver Idle with no nodes and no data; any other start leaves it Running
\* with send_buffer the payload's units and all pointers 0.
C9_Start ==
    [][request' = [handler |-> "start", from |-> "Idle"] =>
          LET payload == Strip(data_entry)
              valid == loss_probability_entry \in {"0.0", "0.1", "1.0"}
          IN  IF payload = <<>> \/ ~valid
              THEN /\ Idle'
                   /\ receiver' = NoNode
                   /\ simulation_data' = <<>>
              ELSE /\ Running'
                   /\ sender' # NoNode
                   /\ receiver' # NoNode
                   /\ sender'.send_buffer = payload
                   /\ sender'.next_frame_to_send = 0
                   /\ sender'.expected_frame_ack = 0
                   /\ receiver'.next_frame_to_deliver = 0
                   /\ receiver'.received_frames = {}]_vars

\* a start with a payload and the loss probability 1.1 was rejected
C9_Witness ==
    /\ Idle
    /\ request = [handler |-> "start", from |-> "Idle"]
    /\ Strip(data_entry) # <<>>
    /\ loss_probability_entry = "1.1"

FromFinished(handler) == request' = [handler |-> handler, from |-> "Finished"]

\* C10 as stated: from Finished only a reset changes the driver state or a
\* node; a step or a start changes neither.
C10_FinishedTerminal ==
    [][Finished =>
          \/ FromFinished("reset") /\ Idle' /\ receiver' = NoNode
          \/ UNCHANGED <<is_running, sender, receiver>>]_vars

\* C10 as amended: from Finished a step changes nothing and a reset gives a
\* fresh Idle with no nodes, but a start begins a new run: Running, fresh nodes,
\* send_buffer filled from the same payload, all pointers 0.
C10_FinishedUntilResetOrStart ==
    [][Finished =>
          \/ /\ FromFinished("reset")
             /\ Idle' /\ receiver' = NoNode /\ simulation_data' = <<>>
          \/ /\ FromFinished("step")
             /\ UNCHANGED <<is_running, sender, receiver, simulation_data, delivered>>
          \/ /\ FromFinished("start")
             /\ Running'
             /\ sender'.send_buffer = sender.send_buffer
             /\ sender'.next_frame_to_send = 0
             /\ sender'.expected_frame_ack = 0
             /\ receiver'.next_frame_to_deliver = 0
             /\ receiver'.received_frames = {}
             /\ delivered' = <<>>]_vars

\* a start was issued in Finished and a new run is under way
C10_Witness ==
    /\ Running
    /\ request = [handler |-> "start", from |-> "Finished"]

\* C11: the framing round trip. For every sequence number in 0..3 and every
\* one-character payload of an 8-bit code, unframe_data(frame_data(payload,
\* seq)) returns (seq, payload, is_corrupted = False).
C11_RoundTrip ==
    (probe.op = "frame" /\ probe.sequence_number < SeqModulus)
    => probe.unframed = [sequence_number |-> Some(probe.sequence_number),
                         data |-> Some(probe.data),
                         is_corrupted |-> FALSE,
                         raised |-> ""]

\* the character 255 was framed with sequence number 3 and unframed again
C11_Witness ==
    /\ probe.op = "frame"
    /\ probe.sequence_number = SeqModulus - 1
    /\ probe.data = <<2 ^ ByteWidth - 1>>
    /\ Len(probe.frame) = 2 + ByteWidth + Len(DefaultPolynomial) - 1
    /\ ~probe.unframed.is_corrupted

\* C12: the CRC round trip. For every non-empty data bit string and every
\* generator bit string, check_crc(data + generate_crc(data, generator),
\* generator) returns True.
C12_CrcRoundTrip ==
    (probe.op = "crc" /\ probe.data # <<>>)
    => probe.check = Returned(TRUE)

\* the data "1" under the one-bit generator "1": no check bits, and check_crc
\* ends in int('')
C12_Witness ==
    /\ probe.op = "crc"
    /\ probe.data = <<1>>
    /\ probe.polynomial = <<1>>
    /\ probe.crc = Returned(<<>>)
    /\ probe.check = Raised("ValueError")

\* the round trip under the generators that leave at least one check bit
C12_CrcRoundTripWithCheckBits ==
    (probe.op = "crc" /\ Len(probe.polynomial) >= 2)
    => probe.check = Returned(TRUE)

\* C14: empty input. generate_crc and check_crc called with an empty bit
\* string both fail with InvalidInputError; neither returns.
C14_EmptyInputFails ==
    /\ (probe.op = "crc" /\ probe.data = <<>>)
       => probe.crc = Raised("InvalidInputError")
    /\ (probe.op = "check" /\ probe.bits = <<>>)
       => probe.result = Raised("InvalidInputError")

\* generate_crc("", "1011") returned the check bits "000"
C14_Witness ==
    /\ probe.op = "crc"
    /\ probe.data = <<>>
    /\ probe.polynomial = DefaultPolynomial
    /\ probe.crc = Returned(<<0, 0, 0>>)

\* C13: single-bit errors. Under the generator 1011, for every frame that
\* frame_data builds from a sequence number in 0..3 and one 8-bit character
\* (13 bits), the frame with any one bit flipped fails check_crc; unframe_data
\* reports it corrupted and process_received_frame is not called: the receiver
\* is unchanged, there is no ACK and nothing is delivered.
C13_SingleBitError ==
    (probe.op = "flip" /\ probe.sequence_number < SeqModulus)
    => /\ Len(probe.sent) = 13
       /\ probe.crc_ok = Returned(FALSE)
       /\ probe.unframed = [sequence_number |-> None, data |-> None,
                            is_corrupted |-> TRUE, raised |-> ""]
       /\ probe.received = [node |-> NewNode("Receiver"), ack |-> None,
                            delivered |-> <<>>]

\* the first check bit of the frame of 'A' with sequence number 2 was flipped
C13_Witness ==
    /\ probe.op = "flip"
    /\ probe.sequence_number = 2
    /\ probe.data = <<65>>
    /\ probe.frame = FlipBit(probe.sent, 2 + ByteWidth + 1)
    /\ probe.unframed.is_corrupted

\* C15: the ACK of a frame that is no duplicate. A call whose sequence number
\* equals next_frame_to_deliver returns that number, also when the drain moves
\* next_frame_to_deliver further on; a call whose number is above
\* next_frame_to_deliver returns next_frame_to_deliver - 1 if
\* next_frame_to_deliver > 0 and None otherwise.
C15_Ack ==
    [][ReceiveCalled =>
          LET seq == Last(calls').sequence_number[1]
              ntd == receiver.next_frame_to_deliver
              ack == Last(calls').ack
          IN  /\ seq = ntd => ack = Some(seq)
              /\ seq > ntd => ack = IF ntd > 0 THEN Some(ntd - 1) ELSE None]_vars

\* frame 1 was buffered without an ACK; frame 0 then drained up to 2 and was
\* acknowledged 0; frame 3, ahead of 2, was acknowledged 1
C15_Witness ==
    /\ Len(calls) = 3
    /\ calls[1].sequence_number = Some(1) /\ calls[1].ack = None
    /\ calls[2].sequence_number = Some(0) /\ calls[2].ack = Some(0)
    /\ calls[2].next_frame_to_deliver = 2
    /\ calls[3].sequence_number = Some(3) /\ calls[3].ack = Some(1)

\* the characters of the complete 8-bit units of a bit string
CompleteUnits(bits) ==
    [i \in 1..(Len(bits) \div ByteWidth) |->
        ParseInt(SubSeq(bits, ByteWidth * (i - 1) + 1, ByteWidth * i), 2)]
\* the bits after the last complete unit
PartialUnit(bits) ==
    SubSeq(bits, ByteWidth * (Len(bits) \div ByteWidth) + 1, Len(bits))
\* unframe_data was called on a well-formed frame whose data bits end in a partial unit
UnframedPartial == probe.op = "unframe" /\ Len(probe.data_bits) % ByteWidth # 0

\* C16 as stated: unframe_data of a frame that passes the length and CRC
\* checks and whose data-bit count is no multiple of 8 returns only the
\* complete 8-bit units, the trailing partial unit adding no character, and
\* does not fail.
C16_PartialUnitDropped ==
    UnframedPartial
    => /\ probe.unframed.raised = ""
       /\ ~probe.unframed.is_corrupted
       /\ probe.unframed.data = Some(CompleteUnits(probe.data_bits))

\* C16 as amended: such a call does not fail and returns the complete 8-bit
\* units followed by one more character, the trailing 1..7 bits read as a
\* binary number.
C16_PartialUnitDecoded ==
    UnframedPartial
    => /\ probe.unframed.raised = ""
       /\ ~probe.unframed.is_corrupted
       /\ probe.unframed.sequence_number = Some(ParseInt(SubSeq(probe.frame, 1, 2), 2))
       /\ probe.unframed.data =
             Some(Append(CompleteUnits(probe.data_bits),
                         ParseInt(PartialUnit(probe.data_bits), 2)))

\* a frame carrying 'A' and one more bit was unframed into two characters
C16_Witness ==
    /\ probe.op = "unframe"
    /\ probe.data_bits = ToBits(65, ByteWidth) \o <<1>>
    /\ probe.unframed.data = Some(<<65, 1>>)

\* C17: Finished means complete. Whenever the driver is Finished,
\* expected_frame_ack and next_frame_to_deliver both equal len(send_buffer);
\* this holds also of a step that ends the run in the branch taken when no
\* frame can be sent, which tests expected_frame_ack alone.
C17_FinishedComplete ==
    /\ [](Finished =>
            /\ sender.expected_frame_ack = Len(sender.send_buffer)
            /\ receiver.next_frame_to_deliver = Len(sender.send_buffer))
    /\ [][(StepTaken /\ ~can_send_new_frame(sender) /\ ~is_running')
            => /\ sender'.expected_frame_ack = Len(sender'.send_buffer)
               /\ receiver'.next_frame_to_deliver = Len(sender'.send_buffer)]_vars

\* a run of three units with bit errors enabled has just finished
C17_Witness ==
    /\ Finished
    /\ request = [handler |-> "step", from |-> "Running"]
    /\ introduce_error_var
    /\ Len(sender.send_buffer) = 3
    /\ Len(delivered) = 3

\* C18: acknowledged means delivered. In every state of a run
\* expected_frame_ack <= next_frame_to_deliver, whichever branch of
\* process_received_frame produced the ACK.
C18_AckedDelivered ==
    sender # NoNode => sender.expected_frame_ack <= receiver.next_frame_to_deliver

\* frame 0 was delivered, frame 1 lost, and frame 2, buffered, was answered
\* with the cumulative ACK 0
C18_Witness ==
    /\ sender # NoNode
    /\ Len(outcomes) = 3
    /\ outcomes[1] = "delivered" /\ outcomes[2] = "lost" /\ outcomes[3] = "delivered"
    /\ ack_num_from_receiver = Some(0)
    /\ sender.expected_frame_ack = 1
    /\ receiver.next_frame_to_deliver = 1

\* C19: wraparound. A run whose payload has more than 4 units is never
\* Finished, whatever the channel does, and its next_frame_to_deliver and
\* expected_frame_ack never exceed 4.
C19_LongPayload ==
    (sender # NoNode /\ Len(sender.send_buffer) > SeqModulus)
    => /\ ~Finished
       /\ receiver.next_frame_to_deliver <= SeqModulus
       /\ sender.expected_frame_ack <= SeqModulus

\* on a lossless channel without bit errors four units of five were delivered
\* and the fifth frame, carrying sequence number 0 again, was answered as a
\* duplicate of frame 0
C19_Witness ==
    /\ Running
    /\ loss_probability_entry = "0.0"
    /\ ~introduce_error_var
    /\ Len(sender.send_buffer) = SeqModulus + 1
    /\ Len(outcomes) = SeqModulus + 1
    /\ receiver.next_frame_to_deliver = SeqModulus
    /\ sender.expected_frame_ack = SeqModulus
    /\ ack_num_from_receiver = Some(0)

\* some data frame of the run was lost or arrived corrupted
SomeFrameFailed == \E i \in 1..Len(outcomes) : outcomes[i] # "delivered"
\* the index (from 0) of the first frame that was lost or arrived corrupted
FirstFailed ==
    (CHOOSE i \in 1..Len(outcomes) :
        /\ outcomes[i] # "delivered"
        /\ \A j \in 1..(i - 1) : outcomes[j] = "delivered") - 1

\* C20: no retransmission. Once a data frame of a run was lost or arrived
\* corrupted, the run is never Finished and expected_frame_ack never goes
\* past the index of the first such frame.
C20_NoRecovery ==
    (sender # NoNode /\ SomeFrameFailed)
    => /\ ~Finished
       /\ sender.expected_frame_ack <= FirstFailed

\* frame 0 was delivered, frame 1 arrived corrupted, frames 2 and 3 were
\* delivered into the buffer, and further steps were taken
C20_Witness ==
    /\ Running
    /\ outcomes = <<"delivered", "corrupted", "delivered", "delivered">>
    /\ sender.expected_frame_ack = 1
    /\ Keys(receiver.received_frames) = {2, 3}
    /\ steps > Len(outcomes)

\* C21: buffered for good. In a run no step removes an entry from the
\* receiver's received_frames, and once an entry is buffered no step delivers
\* anything or moves next_frame_to_deliver.
C21_NeverDrained ==
    [][StepTaken =>
          /\ receiver.received_frames \subseteq receiver'.received_frames
          /\ receiver.received_frames # {}
             => /\ delivered' = delivered
                /\ receiver'.next_frame_to_deliver = receiver.next_frame_to_deliver]_vars

\* frame 0 was lost, frames 1 and 2 were buffered, and further steps were
\* taken with the window full
C21_Witness ==
    /\ Running
    /\ request = [handler |-> "step", from |-> "Running"]
    /\ outcomes = <<"lost", "delivered", "delivered">>
    /\ Keys(receiver.received_frames) = {1, 2}
    /\ delivered = <<>>
    /\ steps > Len(outcomes)

\* C22: no stale entry. For a receiver fed any calls of
\* process_received_frame, after every call each key of received_frames is
\* strictly greater than next_frame_to_deliver.
C22_KeysAhead ==
    \A k \in Keys(receiver.received_frames) : k > receiver.next_frame_to_deliver

\* frames 3 and 1 were buffered; frame 0 then drained 1 and left 3 above the
\* delivery point 2
C22_Witness ==
    /\ Len(calls) = 3
    /\ calls[1].sequence_number = Some(3)
    /\ calls[2].sequence_number = Some(1)
    /\ calls[3].sequence_number = Some(0)
    /\ receiver.next_frame_to_deliver = 2
    /\ Keys(receiver.received_frames) = {3}

=============================================================================
